---- MODULE Spec2Model ----
(***************************************************************************)
(* The thumbnail pipeline of PyImageViewer.                                *)
(*                                                                         *)
(* Host side (one cooperative pyglet thread): FileBrowser with its         *)
(* thumbnailDict of Containers, ScrollBrowser, _GetThumbnails and the      *)
(* scheduled ReceiveImages callback.  Engine side: the ThumbnailServer     *)
(* process running the dispatch loop of run(), and the mp.Pool workers     *)
(* running LoadImage.  The two sides meet in two FIFO channels: toTS       *)
(* (host put_nowait, server parentConn.recv) and fromTS (worker            *)
(* parentConn.send, host fromTS.get).                                      *)
(*                                                                         *)
(* Fields and variables marked "history" do not exist in the program; they *)
(* record what happened so that properties can be stated.                  *)
(***************************************************************************)
EXTENDS Integers, Sequences, FiniteSets, TLC

\* ---------------------------------------------------------------- bounds
\* Total number of requests the containers may enqueue in one run.
MaxSubmits == 2
\* Most scheduled ReceiveImages callbacks the model tells apart: the count
\* of pending callbacks saturates here.
MaxScheduled == 2
\* Largest width and height, and largest bounding size, of the images the
\* decode is tried on when it is looked at on its own.
MaxDim == 6
MaxBound == 8

\* ------------------------------------------------- program constants
\* Number of processes mp.Pool() starts (os.cpu_count() of the machine).
NumWorkers == 2
thumbnailsPerRow == 8
marginPix == 20
\* The window size the host reports (self.width, self.height).
Width == 1280
Height == 160

None == "None"

\* ------------------------------------------------------ the file system
\* "/" holds the folder "/A" and one image; "/A" holds fifteen folders and
\* one image, so that with the parent entry its image starts the third row of
\* the grid.
Root == "/"
FolderA == "/A"
SubDirs == <<"/A/d01", "/A/d02", "/A/d03", "/A/d04", "/A/d05", "/A/d06",
             "/A/d07", "/A/d08", "/A/d09", "/A/d10", "/A/d11", "/A/d12",
             "/A/d13", "/A/d14", "/A/d15">>
Directories == {Root, FolderA} \cup {SubDirs[i] : i \in 1..Len(SubDirs)}
Files == {"/g1.png", "/A/f1.png"}

is_dirNever(p) == FALSE

is_dir(p) == p \in Directories

Parent(p) ==
    IF p \in {Root, FolderA, "/g1.png"} THEN Root ELSE FolderA

\* fullPathList of _GetThumbnails: the parent first, then the folders sorted
\* by name, then the supported image files sorted by name.
fullPathList(folder) ==
    IF folder = Root THEN <<Parent(Root), FolderA, "/g1.png">>
    ELSE IF folder = FolderA THEN <<Parent(FolderA)>> \o SubDirs \o <<"/A/f1.png">>
    ELSE <<Parent(folder)>>

\* The folders the browser is opened on, the scroll amounts of
\* on_mouse_scroll (scroll_y * 10 with |scroll_y| > 0.2), and the folders a
\* mouse click may land on.
InitialPaths == {Root, FolderA}
ScrollAmounts == {-200, 200}
ClickTargets == {Root, FolderA}

Workers == 1..NumWorkers

VARIABLES
    inputPath,          \* FileBrowser.inputPath
    thumbnailDict,      \* FileBrowser.thumbnailDict, in insertion order
    currentScroll,      \* FileBrowser.currentScroll
    scrollableAmount,   \* FileBrowser.scrollableAmount
    scheduled,          \* number of pending pyglet.clock.schedule_once(ReceiveImages)
    hostPc,             \* "running" inside pyglet.app.run(), "exited" after it,
                        \* "blocked" inside an acquire() that does not return
    queueLock,          \* FileBrowser.queueLock is held
    engines,            \* number of ThumbnailServer objects created and started
    highlightedImageIndex, \* FileBrowser.highlightedImageIndex, counted from 0
    highlighted,        \* Container.highlighted of each tracked container
    toTS,               \* requests in flight from the host to the server
    fromTS,             \* results in flight from the workers to the host
    serverPc,           \* position of ThumbnailServer.run
    parentConnClosed,   \* self.parentConn.close() has run
    childConnClosed,    \* self.childConn.close() has run
    poolTasks,          \* tasks handed to the pool and not yet taken by a worker
    worker,             \* state of each pool process
    lock,               \* the mp.Lock of the workers: 0 free, else the holder
    warnings,           \* warning records put on the log queue, per file name
    nextReq,            \* history: serial number of the next request
    submitted,          \* history: requests enqueued, per key
    published,          \* history: results put on fromTS, per key
    drained,            \* history: results read by ReceiveImages, per key
    logQueue,           \* Logger.messageQueue: the messages put and not yet got
    loggerPc,           \* position of Logger.LoggingProcess
    written,            \* the messages LoggingProcess has handed to logging.log
    exitLogged,         \* MainWindow.__init__ has put the 'Exiting' message
    sample,             \* the image and bounding size of a decode looked at on its
                        \* own (RasterSpec), and the size of the raster it gives;
                        \* the pipeline does not use it
    hist                \* history: event counters and flags used by the properties;
                        \* "idle" is set by a pass of ReceiveImages that leaves no
                        \* container loading and cleared by the next request,
                        \* "reordered" by a pass that reads results in another
                        \* order than their requests were enqueued, "seen" holds
                        \* the image paths whose container has been in the viewport

highlightVars == <<highlightedImageIndex, highlighted>>
hostVars == <<inputPath, thumbnailDict, currentScroll, scrollableAmount, scheduled, hostPc,
              queueLock, engines, highlightVars>>
engineVars == <<serverPc, parentConnClosed, childConnClosed, poolTasks, worker, lock, warnings>>
histVars == <<nextReq, submitted, published, drained, hist>>
pipelineVars == <<hostVars, toTS, fromTS, engineVars, histVars>>
logVars == <<logQueue, loggerPc, written, exitLogged>>
vars == <<pipelineVars, sample, logVars>>

\* A message on the log queue: its text and, for the messages of LoadImage,
\* the file name that goes with it.
Message(text, name) == [text |-> text, name |-> name]

\* ------------------------------------------------------------ Container
containerSize == Width \div thumbnailsPerRow
imageSize == containerSize - (marginPix * 2)

\* Container.__init__ ("req" is history: the serial number of the request
\* issued in the container's current visibility lifetime, 0 if none).
Container(y) ==
    [path |-> "", y |-> y, imageLoaded |-> FALSE, imageLoading |-> FALSE,
     sprite |-> "none", label |-> FALSE, gridLines |-> FALSE, req |-> 0]

visible(c) ==
    \/ (c.y >= 0 /\ c.y < Height)
    \/ (c.y + containerSize >= 0 /\ c.y + containerSize < Height)

InitialiseSprite(c) ==
    [c EXCEPT !.sprite = IF is_dir(c.path) THEN "folder" ELSE "loading",
              !.label = TRUE, !.gridLines = TRUE]

deleteNothing(c) == c

delete(c) == [c EXCEPT !.sprite = "none", !.label = FALSE, !.gridLines = FALSE]

SendsRequestAgain(c) == visible(c) /\ ~is_dir(c.path)

SendsRequestUnseen(c) == ~c.imageLoaded /\ ~is_dir(c.path)

\* The guard of the request in _updateSprite.
SendsRequest(c) == visible(c) /\ ~c.imageLoaded /\ ~is_dir(c.path)

updateSpriteStillLoading(c, r) ==
    IF visible(c)
    THEN LET c1 == IF c.sprite = "none" THEN InitialiseSprite(c) ELSE c
         IN IF SendsRequest(c)
            THEN [c1 EXCEPT !.imageLoaded = TRUE, !.imageLoading = TRUE, !.req = r]
            ELSE c1
    ELSE delete([c EXCEPT !.imageLoaded = FALSE, !.req = 0])

\* _updateSprite; r is the serial number its request gets if it sends one.
updateSprite(c, r) ==
    IF visible(c)
    THEN LET c1 == IF c.sprite = "none" THEN InitialiseSprite(c) ELSE c
         IN IF SendsRequest(c)
            THEN [c1 EXCEPT !.imageLoaded = TRUE, !.imageLoading = TRUE, !.req = r]
            ELSE c1
    ELSE delete([c EXCEPT !.imageLoaded = FALSE, !.imageLoading = FALSE, !.req = 0])

\* The path setter: set the path, InitialiseSprite, _updateSprite.
SetPath(c, p, r) == updateSprite(InitialiseSprite([c EXCEPT !.path = p]), r)

SetYRebuilds(c, y, r) ==
    LET c1 == updateSprite([c EXCEPT !.y = y], r)
    IN IF c1.sprite = "none" THEN InitialiseSprite(c1) ELSE c1

\* The y setter: move the container, _updateSprite.
SetY(c, y, r) == updateSprite([c EXCEPT !.y = y], r)

ReceiveImageRetry(c, image) ==
    [c EXCEPT !.imageLoading = FALSE,
              !.imageLoaded = IF image = None THEN FALSE ELSE @,
              !.sprite = IF image # None /\ c.sprite # "none" THEN "thumb" ELSE @]

\* ReceiveImage.
ReceiveImage(c, image) ==
    [c EXCEPT !.imageLoading = FALSE,
              !.sprite = IF image # None /\ c.sprite # "none" THEN "thumb" ELSE @]

\* ------------------------------------------------- request bookkeeping
\* A request is the tuple (path, imageSize) put on toTS; the size is wrapped
\* in a sequence so that None (<<>>) can stand in its place.  "req" is
\* history.
Request(p, r) == [path |-> p, size |-> <<imageSize>>, req |-> r]
Sentinel == [path |-> None, size |-> <<>>, req |-> 0]

\* The indexes, in order, of the containers of cs that send a request.
Senders(cs) == SelectSeq([i \in 1..Len(cs) |-> i], LAMBDA i : SendsRequest(cs[i]))

\* The serial number the request of cs[i] gets when the containers of cs are
\* updated in order, starting at number n.
SerialOf(cs, i, n) == n + Cardinality({j \in 1..(i - 1) : SendsRequest(cs[j])})

\* The requests the containers of cs enqueue, in order.
NewRequests(cs, n) ==
    [k \in 1..Len(Senders(cs)) |-> Request(cs[Senders(cs)[k]].path, n + k - 1)]

\* history: the image paths of the containers of cs that are in the viewport.
InView(cs) == {cs[i].path : i \in {j \in 1..Len(cs) : visible(cs[j])}} \cap Files

CountKey(reqs, k) == Cardinality({i \in 1..Len(reqs) : reqs[i].path = k})

TotalSubmitted == nextReq - 1

\* ----------------------------------------------------------- queueLock
QueueAccessNoRelease == <<"acquire">>

\* What the host does to queueLock around one access to a queue end: the
\* put_nowait of _updateSprite and the get of ReceiveImages both sit between
\* an acquire and a release.
QueueAccess == <<"acquire", "release">>

RECURSIVE Repeat(_, _)
Repeat(ops, n) == IF n = 0 THEN <<>> ELSE ops \o Repeat(ops, n - 1)

\* Run lock operations in order, starting with the lock held or not (l).  The
\* lock is a threading.Lock: an acquire that finds it held waits, and since
\* the host is the only thread that uses it, waits for ever.
RECURSIVE RunLockOps(_, _)
RunLockOps(l, ops) ==
    IF ops = <<>> THEN [lock |-> l, blocked |-> FALSE]
    ELSE IF Head(ops) = "acquire"
         THEN IF l THEN [lock |-> l, blocked |-> TRUE] ELSE RunLockOps(TRUE, Tail(ops))
         ELSE RunLockOps(FALSE, Tail(ops))

\* The lock and the host after a handler that makes n queue accesses.
LockAfter(n) == RunLockOps(queueLock, Repeat(QueueAccess, n)).lock
HostAfter(n) ==
    IF RunLockOps(queueLock, Repeat(QueueAccess, n)).blocked THEN "blocked" ELSE "running"

\* ----------------------------------------------------------- FileBrowser
ServersStartedAlways(handler) == 1

\* The number of ThumbnailServer objects a method of FileBrowser creates and
\* starts: __init__ creates the one of the session, no other method creates
\* any.
ServersStarted(handler) == IF handler = "__init__" THEN 1 ELSE 0

\* The containers _GetThumbnails creates for a folder, before their path is
\* set: container number count (from 0) sits in row count // thumbnailsPerRow.
Placed(folder) ==
    [i \in 1..Len(fullPathList(folder)) |->
        [Container(Height - (containerSize * (((i - 1) \div thumbnailsPerRow) + 1)))
            EXCEPT !.path = fullPathList(folder)[i]]]

\* _GetThumbnails: every container gets its path set (InitialiseSprite and
\* _updateSprite), one ReceiveImages is scheduled per container, and the
\* scrollable amount is taken from the last container.
Loaded(folder, n) ==
    [i \in 1..Len(Placed(folder)) |->
        SetPath(Placed(folder)[i], Placed(folder)[i].path, SerialOf(Placed(folder), i, n))]

LastY(folder) == Placed(folder)[Len(Placed(folder))].y

Abs(x) == IF x < 0 THEN -x ELSE x

ScheduleNothing(n, k) == n

\* pyglet.clock.schedule_once(self.ReceiveImages, 1 / 60), called k times
\* while n callbacks are pending.
Schedule(n, k) == IF n + k > MaxScheduled THEN MaxScheduled ELSE n + k

\* The highlighted flags of n new containers after the last statement of
\* _GetThumbnails has highlighted the one at index 0.
FirstHighlighted(n) == [i \in 1..n |-> i = 1]

GetThumbnails(folder) ==
    LET reqs == NewRequests(Placed(folder), nextReq) IN
    /\ TotalSubmitted + Len(reqs) <= MaxSubmits
    /\ inputPath' = folder
    /\ currentScroll' = 0
    /\ thumbnailDict' = Loaded(folder, nextReq)
    /\ scheduled' = Schedule(scheduled, Len(fullPathList(folder)))
    /\ scrollableAmount' = IF LastY(folder) < 0 THEN Abs(LastY(folder)) ELSE 0
    /\ toTS' = toTS \o reqs
    /\ nextReq' = nextReq + Len(reqs)
    /\ submitted' = [k \in Files |-> submitted[k] + CountKey(reqs, k)]
    /\ hist' = [hist EXCEPT !.idle = @ /\ reqs = <<>>,
                            !.seen = @ \cup InView(thumbnailDict')]
    /\ queueLock' = LockAfter(Len(reqs))
    /\ hostPc' = HostAfter(Len(reqs))
    /\ engines' = engines + ServersStarted("_GetThumbnails")
    /\ highlightedImageIndex' = 0
    /\ highlighted' = FirstHighlighted(Len(fullPathList(folder)))

NoSample == [width |-> 0, height |-> 0, size |-> 0, raster |-> <<>>]

\* FileBrowser.__init__: the state of the pipeline when the browser opens.
Start ==
    /\ \E p \in InitialPaths :
        LET reqs == NewRequests(Placed(p), 1) IN
        /\ inputPath = p
        /\ thumbnailDict = Loaded(p, 1)
        /\ scheduled = Schedule(0, Len(fullPathList(p)))
        /\ scrollableAmount = IF LastY(p) < 0 THEN Abs(LastY(p)) ELSE 0
        /\ toTS = reqs
        /\ nextReq = 1 + Len(reqs)
        /\ submitted = [k \in Files |-> CountKey(reqs, k)]
        /\ queueLock = RunLockOps(FALSE, Repeat(QueueAccess, Len(reqs))).lock
        /\ hostPc = IF RunLockOps(FALSE, Repeat(QueueAccess, Len(reqs))).blocked
                    THEN "blocked" ELSE "running"
        /\ highlighted = FirstHighlighted(Len(fullPathList(p)))
    /\ highlightedImageIndex = 0
    /\ currentScroll = 0
    /\ engines = ServersStarted("__init__")
    /\ fromTS = <<>>
    /\ serverPc = "running"
    /\ parentConnClosed = FALSE
    /\ childConnClosed = FALSE
    /\ poolTasks = <<>>
    /\ worker = [w \in Workers |-> [pc |-> "idle", path |-> None, req |-> 0, image |-> None, raised |-> FALSE]]
    /\ lock = 0
    /\ warnings = [k \in Files |-> 0]
    /\ published = [k \in Files |-> 0]
    /\ drained = [k \in Files |-> 0]
    /\ hist = [dropped |-> 0, changedNotPending |-> 0, staleReady |-> 0, late |-> 0,
               idle |-> FALSE, reordered |-> FALSE, seen |-> InView(thumbnailDict),
               dispatched |-> <<>>, logged |-> <<>>]

\* The log when the browser has opened: the messages of the start-up have
\* been handled, LoggingProcess waits in messageQueue.get().
LogStart ==
    /\ logQueue = <<>>
    /\ loggerPc = "running"
    /\ written = <<>>
    /\ exitLogged = FALSE

Init == Start /\ sample = NoSample /\ LogStart

\* on_key_press, UP with SHIFT: open the parent folder.
KeyShiftUp ==
    /\ hostPc = "running"
    /\ GetThumbnails(Parent(inputPath))
    /\ UNCHANGED <<fromTS, engineVars, published, drained>>
    /\ UNCHANGED sample
    /\ UNCHANGED logVars

\* on_mouse_press, LEFT button inside the sprite of a folder: LoadImage with
\* a path that is not a file opens that folder.
MousePressFolder(p) ==
    /\ hostPc = "running"
    /\ p \in ClickTargets
    /\ \E i \in 1..Len(thumbnailDict) :
        thumbnailDict[i].path = p /\ thumbnailDict[i].sprite # "none"
    /\ is_dir(p)
    /\ GetThumbnails(p)
    /\ UNCHANGED <<fromTS, engineVars, published, drained>>
    /\ UNCHANGED sample
    /\ UNCHANGED logVars

\* The amount ScrollBrowser applies to the containers, and the scroll
\* position it ends at.
AppliedScrollRequested(scroll) == scroll

AppliedScroll(scroll) ==
    LET newScroll == currentScroll + scroll IN
    IF newScroll < scrollableAmount /\ newScroll >= 0 THEN scroll
    ELSE IF newScroll < 0 THEN -currentScroll
    ELSE scrollableAmount - currentScroll

NewCurrentScroll(scroll) ==
    LET newScroll == currentScroll + scroll IN
    IF newScroll < scrollableAmount /\ newScroll >= 0 THEN newScroll
    ELSE IF newScroll < 0 THEN 0
    ELSE scrollableAmount

\* The containers after "thumbnail.y += d", before _updateSprite has run.
Moved(cs, d) == [i \in 1..Len(cs) |-> [cs[i] EXCEPT !.y = @ + d]]

\* ScrollBrowser, called by on_mouse_scroll and by CheckThumbnailVisible.
ScrollBrowser(scroll) ==
    LET moved == Moved(thumbnailDict, AppliedScroll(scroll))
        reqs == NewRequests(moved, nextReq)
    IN
    /\ hostPc = "running"
    /\ TotalSubmitted + Len(reqs) <= MaxSubmits
    /\ currentScroll' = NewCurrentScroll(scroll)
    /\ thumbnailDict' = [i \in 1..Len(moved) |->
            SetY(thumbnailDict[i], moved[i].y, SerialOf(moved, i, nextReq))]
    /\ toTS' = toTS \o reqs
    /\ scheduled' = Schedule(scheduled, 1)
    /\ nextReq' = nextReq + Len(reqs)
    /\ submitted' = [k \in Files |-> submitted[k] + CountKey(reqs, k)]
    /\ hist' = [hist EXCEPT !.idle = @ /\ reqs = <<>>,
                            !.seen = @ \cup InView(thumbnailDict')]
    /\ queueLock' = LockAfter(Len(reqs))
    /\ hostPc' = HostAfter(Len(reqs))
    /\ engines' = engines + ServersStarted("ScrollBrowser")
    /\ UNCHANGED <<inputPath, scrollableAmount, fromTS, engineVars, published, drained>>
    /\ UNCHANGED sample
    /\ UNCHANGED logVars

\* on_mouse_scroll with a scroll_y that passes its threshold; scroll is
\* scroll_y * 10.
on_mouse_scroll(scroll) ==
    /\ ScrollBrowser(scroll)
    /\ UNCHANGED highlightVars

\* CheckThumbnailVisible: scroll the newly highlighted container into the
\* window when it is off the bottom or off the top.
CheckThumbnailVisible(newThumbnail) ==
    IF newThumbnail.y < 0
    THEN ScrollBrowser(Abs(newThumbnail.y))
    ELSE IF newThumbnail.y + containerSize > Height
    THEN ScrollBrowser(Height - (newThumbnail.y + containerSize))
    ELSE UNCHANGED <<inputPath, thumbnailDict, currentScroll, scrollableAmount, scheduled,
                     hostPc, queueLock, engines, toTS, fromTS, engineVars, histVars, sample,
                     logVars>>

\* The index on_key_press moves the highlight to from index i, with n
\* containers tracked.
UpIndex(i, n) == IF i - thumbnailsPerRow < 0 THEN 0 ELSE i - thumbnailsPerRow

DownIndex(i, n) == IF i + thumbnailsPerRow >= n THEN n - 1 ELSE i + thumbnailsPerRow

RightIndex(i, n) == IF i + 1 >= n THEN 0 ELSE i + 1

LeftIndexClamps(i, n) == IF i - 1 < 0 THEN 0 ELSE i - 1

LeftIndex(i, n) == IF i - 1 < 0 THEN n - 1 ELSE i - 1

\* The part the four arrow keys share: the container at the old index loses
\* the highlight, the one at the new index gets it and is scrolled into view.
MoveHighlight(newIndex) ==
    /\ highlightedImageIndex' = newIndex
    /\ highlighted' = [[highlighted EXCEPT ![highlightedImageIndex + 1] = FALSE]
                            EXCEPT ![newIndex + 1] = TRUE]
    /\ CheckThumbnailVisible(thumbnailDict[newIndex + 1])

\* on_key_press, UP without SHIFT.
KeyUp ==
    /\ hostPc = "running"
    /\ MoveHighlight(UpIndex(highlightedImageIndex, Len(thumbnailDict)))

\* on_key_press, DOWN.
KeyDown ==
    /\ hostPc = "running"
    /\ MoveHighlight(DownIndex(highlightedImageIndex, Len(thumbnailDict)))

\* on_key_press, RIGHT.
KeyRight ==
    /\ hostPc = "running"
    /\ MoveHighlight(RightIndex(highlightedImageIndex, Len(thumbnailDict)))

\* on_key_press, LEFT.
KeyLeft ==
    /\ hostPc = "running"
    /\ MoveHighlight(LeftIndex(highlightedImageIndex, Len(thumbnailDict)))

\* A result is the tuple (imagePath, image) a worker sends; "req" is history.
Result(p, image, r) == [path |-> p, image |-> image, req |-> r]

DeliverToOldestPending(cs, res) ==
    [i \in 1..Len(cs) |->
        IF cs[i].imageLoading /\ \A j \in 1..Len(cs) : cs[j].imageLoading => cs[i].req <= cs[j].req
        THEN ReceiveImage(cs[i], res.image) ELSE cs[i]]

DeliverFailureToAll(cs, res) ==
    [i \in 1..Len(cs) |->
        IF cs[i].path = res.path THEN ReceiveImage(cs[i], res.image)
        ELSE IF res.image = None THEN delete(cs[i]) ELSE cs[i]]

DeliverOrFirst(cs, res) ==
    [i \in 1..Len(cs) |->
        IF cs[i].path = res.path \/ (i = 1 /\ \A j \in 1..Len(cs) : cs[j].path # res.path)
        THEN ReceiveImage(cs[i], res.image) ELSE cs[i]]

\* The body of the drain loop of ReceiveImages for one result: if the path
\* is in the dictionary, the container's ReceiveImage is called.
Deliver(cs, res) ==
    [i \in 1..Len(cs) |->
        IF cs[i].path = res.path THEN ReceiveImage(cs[i], res.image) ELSE cs[i]]

\* The drain loop of ReceiveImages over the results that are available.
RECURSIVE DrainAll(_, _)
DrainAll(cs, q) ==
    IF q = <<>> THEN cs ELSE DrainAll(Deliver(cs, Head(q)), Tail(q))

GetsBeforeTest(q) == IF q = <<>> THEN 1 ELSE Len(q)

\* "while not self.fromTS.empty(): ... self.fromTS.get()": the number of
\* get() calls a pass makes when q holds the results that are available.
Gets(q) == Len(q)

NeverLoading(cs) == FALSE

\* The test that makes ReceiveImages schedule itself again.
AnyLoading(cs) == \E i \in 1..Len(cs) : cs[i].imageLoading

Tracked(cs, p) == \E i \in 1..Len(cs) : cs[i].path = p

\* history: how many results of q are discarded because their key is not
\* tracked.
DroppedIn(cs, q) == Cardinality({j \in 1..Len(q) : ~Tracked(cs, q[j].path)})

\* history: the results of q are not in the order their requests were
\* enqueued.
OutOfOrder(q) == \E i, j \in 1..Len(q) : i < j /\ q[i].req > q[j].req

\* history: how many results of q reach a container that is not Pending and
\* change it.
RECURSIVE ChangedNotPendingIn(_, _)
ChangedNotPendingIn(cs, q) ==
    IF q = <<>> THEN 0
    ELSE (IF \E i \in 1..Len(cs) :
                /\ cs[i].path = Head(q).path
                /\ ~cs[i].imageLoading
                /\ ReceiveImage(cs[i], Head(q).image) # cs[i]
          THEN 1 ELSE 0) + ChangedNotPendingIn(Deliver(cs, Head(q)), Tail(q))

\* history: how many results of q end the Pending state of a container whose
\* current request is another one.
RECURSIVE StaleReadyIn(_, _)
StaleReadyIn(cs, q) ==
    IF q = <<>> THEN 0
    ELSE (IF \E i \in 1..Len(cs) :
                /\ cs[i].path = Head(q).path
                /\ cs[i].imageLoading
                /\ cs[i].req # Head(q).req
          THEN 1 ELSE 0) + StaleReadyIn(Deliver(cs, Head(q)), Tail(q))

\* ReceiveImages, the scheduled callback: read every result that is
\* available, hand each to the container registered under its path, and
\* schedule the callback again if a container is still loading.  get() is
\* the blocking call: the pass returns only if every get() it makes finds a
\* result.
ReceiveImages ==
    /\ hostPc = "running"
    /\ scheduled > 0
    /\ Gets(fromTS) <= Len(fromTS)
    /\ thumbnailDict' = DrainAll(thumbnailDict, fromTS)
    /\ fromTS' = <<>>
    /\ scheduled' = Schedule(scheduled - 1, IF AnyLoading(thumbnailDict') THEN 1 ELSE 0)
    /\ drained' = [k \in Files |-> drained[k] + CountKey(fromTS, k)]
    /\ hist' = [hist EXCEPT
                  !.dropped = @ + DroppedIn(thumbnailDict, fromTS),
                  !.changedNotPending = @ + ChangedNotPendingIn(thumbnailDict, fromTS),
                  !.staleReady = @ + StaleReadyIn(thumbnailDict, fromTS),
                  !.idle = ~AnyLoading(thumbnailDict'),
                  !.reordered = @ \/ OutOfOrder(fromTS)]
    /\ queueLock' = LockAfter(Gets(fromTS))
    /\ hostPc' = HostAfter(Gets(fromTS))
    /\ engines' = engines + ServersStarted("ReceiveImages")
    /\ UNCHANGED <<inputPath, currentScroll, scrollableAmount, toTS, engineVars,
                   nextReq, submitted, published, highlightVars>>
    /\ UNCHANGED sample
    /\ UNCHANGED logVars

\* MainWindow.__init__ after pyglet.app.run() has returned: (None, None) is
\* put on the request queue, without taking queueLock; no handler or callback
\* runs any more.
AppExit ==
    /\ hostPc = "running"
    /\ hostPc' = "exited"
    /\ toTS' = Append(toTS, Sentinel)
    /\ UNCHANGED <<inputPath, thumbnailDict, currentScroll, scrollableAmount, scheduled,
                   queueLock, engines, highlightVars, fromTS, engineVars, histVars>>
    /\ UNCHANGED sample
    /\ UNCHANGED logVars

\* ------------------------------------------------------- ThumbnailServer
\* The test of the dispatch loop: a request is dispatched when neither of
\* its two fields is None.
IsRequestNever(m) == FALSE

IsRequestAlways(m) == TRUE

IsRequest(m) == m.path # None /\ m.size # <<>>

\* pool.apply_async(LoadImage, (imagePath, containerSize)): the tasks one
\* received request adds to the pool.
DispatchedTwice(m) == <<m, m>>

DispatchedNothing(m) == <<>>

Dispatched(m) == <<m>>

\* history: the serial numbers of the tasks in ts.
Serials(ts) == [i \in 1..Len(ts) |-> ts[i].req]

\* One turn of the loop of run(): receive, then either apply_async or break.
ServerRecv ==
    /\ serverPc = "running"
    /\ toTS # <<>>
    /\ toTS' = Tail(toTS)
    /\ IF IsRequest(Head(toTS))
       THEN /\ poolTasks' = poolTasks \o Dispatched(Head(toTS))
            /\ hist' = [hist EXCEPT !.dispatched = @ \o Serials(Dispatched(Head(toTS)))]
            /\ serverPc' = "running"
       ELSE /\ poolTasks' = poolTasks
            /\ hist' = hist
            /\ serverPc' = "closeParent"
    /\ UNCHANGED <<hostVars, fromTS, parentConnClosed, childConnClosed, worker, lock,
                   warnings, nextReq, submitted, published, drained>>
    /\ UNCHANGED sample
    /\ UNCHANGED logVars

BackToLoop(pc) == "running"

\* The statements of run() that follow its loop, in order: close parentConn,
\* close childConn, leave the "with mp.Pool" block, return.
AfterStatement(pc) ==
    CASE pc = "closeParent" -> "closeChild"
      [] pc = "closeChild" -> "poolExit"
      [] pc = "poolExit" -> "stopped"
      [] OTHER -> pc

\* self.parentConn.close()
ServerCloseParent ==
    /\ serverPc = "closeParent"
    /\ parentConnClosed' = TRUE
    /\ serverPc' = AfterStatement(serverPc)
    /\ UNCHANGED <<hostVars, toTS, fromTS, childConnClosed, poolTasks, worker, lock,
                   warnings, histVars>>
    /\ UNCHANGED sample
    /\ UNCHANGED logVars

\* self.childConn.close()
ServerCloseChild ==
    /\ serverPc = "closeChild"
    /\ childConnClosed' = TRUE
    /\ serverPc' = AfterStatement(serverPc)
    /\ UNCHANGED <<hostVars, toTS, fromTS, parentConnClosed, poolTasks, worker, lock,
                   warnings, histVars>>
    /\ UNCHANGED sample
    /\ UNCHANGED logVars

\* The end of "with mp.Pool(...) as pool": Pool.__exit__ calls terminate(),
\* which stops every worker process where it stands and discards the tasks
\* no worker has taken.  A lock held by a stopped worker stays held.
ServerPoolExit ==
    /\ serverPc = "poolExit"
    /\ serverPc' = AfterStatement(serverPc)
    /\ poolTasks' = <<>>
    /\ worker' = [w \in Workers |-> [worker[w] EXCEPT !.pc = "terminated"]]
    /\ UNCHANGED <<hostVars, toTS, fromTS, parentConnClosed, childConnClosed, lock,
                   warnings, histVars>>
    /\ UNCHANGED sample
    /\ UNCHANGED logVars

\* ------------------------------------------------------------- LoadImage
\* A pool process takes the next task.
WorkerTake(w) ==
    /\ worker[w].pc = "idle"
    /\ poolTasks # <<>>
    /\ worker' = [worker EXCEPT ![w] = [@ EXCEPT !.pc = "decode",
                                                !.path = Head(poolTasks).path,
                                                !.req = Head(poolTasks).req,
                                                !.image = None]]
    /\ poolTasks' = Tail(poolTasks)
    /\ UNCHANGED <<hostVars, toTS, fromTS, serverPc, parentConnClosed, childConnClosed,
                   lock, warnings, histVars>>
    /\ UNCHANGED sample
    /\ UNCHANGED logVars

\* What Image.open and Image.thumbnail may do.
DecodeOutcomes == {"openFailed", "thumbnailFailed", "ok"}

\* The image LoadImage ends up with, and the warnings it logs.
DecodedImage(outcome) == IF outcome = "ok" THEN "ImageData" ELSE None

\* The text of the message LoadImage logs, without the file name.
LogText(outcome) ==
    CASE outcome = "openFailed" -> "Loading Failed"
      [] outcome = "thumbnailFailed" -> "Failed to Create Thumbnail"
      [] OTHER -> "Loaded and Thumbnail Created"
WarningsLogged(outcome) == IF outcome = "ok" THEN 0 ELSE 1

\* The try/except/else part of LoadImage.
WorkerDecode(w) ==
    /\ worker[w].pc = "decode"
    /\ \E outcome \in DecodeOutcomes :
        /\ worker' = [worker EXCEPT ![w] = [@ EXCEPT !.pc = "acquire",
                                                    !.image = DecodedImage(outcome)]]
        /\ warnings' = [warnings EXCEPT ![worker[w].path] = @ + WarningsLogged(outcome)]
        /\ logQueue' = Append(logQueue, Message(LogText(outcome), worker[w].path))
        /\ hist' = [hist EXCEPT !.logged = Append(@, Message(LogText(outcome), worker[w].path))]
    /\ UNCHANGED <<hostVars, toTS, fromTS, serverPc, parentConnClosed, childConnClosed,
                   poolTasks, lock, nextReq, submitted, published, drained>>
    /\ UNCHANGED sample
    /\ UNCHANGED <<loggerPc, written, exitLogged>>

CanAcquireAlways(l) == TRUE

\* lock.acquire() returns when the mp.Lock is free.
CanAcquire(l) == l = 0

\* lock.acquire()
WorkerAcquire(w) ==
    /\ worker[w].pc = "acquire"
    /\ CanAcquire(lock)
    /\ lock' = w
    /\ worker' = [worker EXCEPT ![w] = [@ EXCEPT !.pc = "send"]]
    /\ UNCHANGED <<hostVars, toTS, fromTS, serverPc, parentConnClosed, childConnClosed,
                   poolTasks, warnings, histVars>>
    /\ UNCHANGED sample
    /\ UNCHANGED logVars

SendOutcomesRaise == {"raised"}

\* What parentConn.send may do.  While the server has not closed the
\* connection the result is sent.  After the close the worker's handle is
\* either its own duplicate, still open (the result is sent), or unusable
\* (send raises OSError).
SendOutcomes == IF parentConnClosed THEN {"sent", "raised"} ELSE {"sent"}

\* parentConn.send((imagePath, image)): the statement is not guarded, so an
\* exception leaves LoadImage with the lock held; the pool process records
\* the failure and goes on to its next task.
WorkerSend(w) ==
    /\ worker[w].pc = "send"
    /\ \E outcome \in SendOutcomes :
        IF outcome = "sent"
        THEN /\ fromTS' = Append(fromTS, Result(worker[w].path, worker[w].image, worker[w].req))
             /\ published' = [published EXCEPT ![worker[w].path] = @ + 1]
             /\ hist' = [hist EXCEPT !.late = @ + (IF serverPc # "running" THEN 1 ELSE 0)]
             /\ worker' = [worker EXCEPT ![w] = [@ EXCEPT !.pc = "release"]]
        ELSE /\ worker' = [worker EXCEPT ![w] = [@ EXCEPT !.pc = "idle", !.raised = TRUE]]
             /\ UNCHANGED <<fromTS, published, hist>>
    /\ UNCHANGED <<hostVars, toTS, serverPc, parentConnClosed, childConnClosed, poolTasks,
                   lock, warnings, nextReq, submitted, drained>>
    /\ UNCHANGED sample
    /\ UNCHANGED logVars

\* lock.release(), the end of LoadImage.
WorkerRelease(w) ==
    /\ worker[w].pc = "release"
    /\ lock' = 0
    /\ worker' = [worker EXCEPT ![w] = [@ EXCEPT !.pc = "idle"]]
    /\ UNCHANGED <<hostVars, toTS, fromTS, serverPc, parentConnClosed, childConnClosed,
                   poolTasks, warnings, histVars>>
    /\ UNCHANGED sample
    /\ UNCHANGED logVars

Next ==
    \/ KeyShiftUp
    \/ \E p \in ClickTargets : MousePressFolder(p)
    \/ \E scroll \in ScrollAmounts : on_mouse_scroll(scroll)
    \/ ReceiveImages
    \/ AppExit
    \/ ServerRecv
    \/ ServerCloseParent
    \/ ServerCloseChild
    \/ ServerPoolExit
    \/ \E w \in Workers : WorkerTake(w)
    \/ \E w \in Workers : WorkerDecode(w)
    \/ \E w \in Workers : WorkerAcquire(w)
    \/ \E w \in Workers : WorkerSend(w)
    \/ \E w \in Workers : WorkerRelease(w)

Spec == Init /\ [][Next]_vars

\* The scheduling the program gets: the server process and the pool
\* processes keep running, and pyglet's clock runs a callback that is
\* scheduled.  What the user does is not subject to fairness.
Fairness ==
    /\ WF_vars(ServerRecv)
    /\ WF_vars(ServerCloseParent)
    /\ WF_vars(ServerCloseChild)
    /\ WF_vars(ServerPoolExit)
    /\ \A w \in Workers :
        /\ WF_vars(WorkerTake(w))
        /\ WF_vars(WorkerDecode(w))
        /\ WF_vars(WorkerAcquire(w))
        /\ WF_vars(WorkerSend(w))
        /\ WF_vars(WorkerRelease(w))
    /\ WF_vars(ReceiveImages)

FairSpec == Spec /\ Fairness

\* The same scheduling when the decode of one pool process may hang:
\* Image.open and Image.thumbnail of that process need not ever return.
HungWorker == CHOOSE w \in Workers : \A v \in Workers : w <= v

HungFairness ==
    /\ WF_vars(ServerRecv)
    /\ WF_vars(ServerCloseParent)
    /\ WF_vars(ServerCloseChild)
    /\ WF_vars(ServerPoolExit)
    /\ \A w \in Workers :
        /\ WF_vars(WorkerTake(w))
        /\ w # HungWorker => WF_vars(WorkerDecode(w))
        /\ WF_vars(WorkerAcquire(w))
        /\ WF_vars(WorkerSend(w))
        /\ WF_vars(WorkerRelease(w))
    /\ WF_vars(ReceiveImages)

HungSpec == Spec /\ HungFairness

\* ------------------------------------------- the decode on its own
\* floor and ceiling of the fraction a / b (a >= 0, b > 0).
Floor(a, b) == a \div b
Ceil(a, b) == IF a % b = 0 THEN a \div b ELSE (a \div b) + 1

Max(a, b) == IF a >= b THEN a ELSE b

\* round_aspect of Image.thumbnail for the width: of the floor and the
\* ceiling of y * aspect, the one whose ratio to y is nearer the aspect ratio
\* w / h, and at least 1.  The distances are floating-point numbers: when the
\* two are equally near, rounding decides, so either may come out.
RoundWidth(w, h, y) ==
    LET fl == Floor(y * w, h)
        ce == Ceil(y * w, h)
        dfl == Abs(w * y - fl * h)
        dce == Abs(w * y - ce * h)
    IN {Max(n, 1) : n \in {m \in {fl, ce} : (m = fl /\ dfl <= dce) \/ (m = ce /\ dce <= dfl)}}

\* round_aspect for the height: of the floor and the ceiling of x / aspect,
\* the one for which x / n is nearer the aspect ratio (0 counts as nearest),
\* and at least 1.
RoundHeight(w, h, x) ==
    LET fl == Floor(x * h, w)
        ce == Ceil(x * h, w)
        dfl == Abs(w * fl - x * h) * ce
        dce == Abs(w * ce - x * h) * fl
    IN IF fl = 0 THEN {1}
       ELSE {Max(n, 1) : n \in {m \in {fl, ce} : (m = fl /\ dfl <= dce) \/ (m = ce /\ dce <= dfl)}}

thumbnailStretch(w, h, x, y) ==
    IF x * h >= y * w THEN {<<n, y>> : n \in RoundWidth(w, h, y)}
    ELSE {<<x, n>> : n \in RoundHeight(w, h, x)}

\* fullImage.thumbnail((x, y)) on an image of w by h pixels: the sizes the
\* image may have afterwards.  An image that fits the box is left alone;
\* otherwise it is resized to fit the box with its aspect ratio kept.
thumbnail(w, h, x, y) ==
    IF x >= w /\ y >= h THEN {<<w, h>>}
    ELSE IF x * h >= y * w THEN {<<n, y>> : n \in RoundWidth(w, h, y)}
    ELSE {<<x, n>> : n \in RoundHeight(w, h, x)}

\* The widths and heights, and the bounding sizes, the decode is tried on.
Dims == (1..MaxDim) \cup {500, 1000}
BoundingSizes == (1..MaxBound) \cup {200}

\* The successful path of LoadImage on its own: an image of some size is
\* opened, thumbnail((containerSize, containerSize)) is applied, and the
\* ImageData is built with the width and height the image then has.
RasterInit ==
    /\ Start
    /\ \E w \in Dims, h \in Dims, b \in BoundingSizes :
        sample = [width |-> w, height |-> h, size |-> b, raster |-> <<>>]
    /\ LogStart

Thumbnail ==
    /\ sample.raster = <<>>
    /\ \E size \in thumbnail(sample.width, sample.height, sample.size, sample.size) :
        sample' = [sample EXCEPT !.raster = size]
    /\ UNCHANGED pipelineVars
    /\ UNCHANGED logVars

RasterNext == Thumbnail

RasterSpec == RasterInit /\ [][RasterNext]_vars

\* ------------------------------------------------------------ the log
\* MainWindow.__init__, the statement after the sentinel has been put:
\* ('Exiting', logging.INFO) is put on the log queue.
LogExiting ==
    /\ hostPc = "exited"
    /\ ~exitLogged
    /\ exitLogged' = TRUE
    /\ logQueue' = Append(logQueue, Message("Exiting", None))
    /\ hist' = [hist EXCEPT !.logged = Append(@, Message("Exiting", None))]
    /\ UNCHANGED <<hostVars, toTS, fromTS, engineVars, nextReq, submitted, published,
                   drained, sample, loggerPc, written>>

IsExitingNever(message) == FALSE

\* The test that ends the loop of LoggingProcess.
IsExiting(message) == message.text = "Exiting"

\* One turn of the loop of Logger.LoggingProcess: get a message, log it,
\* and leave the loop if it is the 'Exiting' message.
LoggingProcess ==
    /\ loggerPc = "running"
    /\ logQueue # <<>>
    /\ logQueue' = Tail(logQueue)
    /\ written' = Append(written, Head(logQueue))
    /\ loggerPc' = IF IsExiting(Head(logQueue)) THEN "stopped" ELSE "running"
    /\ UNCHANGED <<pipelineVars, sample, exitLogged>>

\* The processes that log after the browser has opened, and the logging
\* process: the browser reloading its folder, the end of the application, the
\* thumbnail server and its pool.  The handlers left out put nothing on the
\* log queue.
LogNext ==
    \/ KeyShiftUp
    \/ AppExit
    \/ LogExiting
    \/ ServerRecv
    \/ ServerCloseParent
    \/ ServerCloseChild
    \/ ServerPoolExit
    \/ \E w \in Workers : WorkerTake(w)
    \/ \E w \in Workers : WorkerDecode(w)
    \/ \E w \in Workers : WorkerAcquire(w)
    \/ \E w \in Workers : WorkerSend(w)
    \/ \E w \in Workers : WorkerRelease(w)
    \/ LoggingProcess

LogSpec == Init /\ [][LogNext]_vars

\* --------------------------------------------- the browser's key handling
\* The handlers that move the highlight or replace the tracked containers,
\* with the thumbnail server left out: no handler reads anything it does.
KeyNext ==
    \/ KeyUp
    \/ KeyDown
    \/ KeyRight
    \/ KeyLeft
    \/ KeyShiftUp
    \/ \E p \in ClickTargets : MousePressFolder(p)
    \/ \E scroll \in ScrollAmounts : on_mouse_scroll(scroll)

KeySpec == Init /\ [][KeyNext]_vars

TypeOK ==
    /\ inputPath \in Directories
    /\ currentScroll \in 0..scrollableAmount
    /\ scheduled \in 0..MaxScheduled
    /\ hostPc \in {"running", "exited", "blocked"}
    /\ queueLock \in BOOLEAN
    /\ engines \in 0..(MaxSubmits + 2)
    /\ serverPc \in {"running", "closeParent", "closeChild", "poolExit", "stopped"}
    /\ lock \in {0} \cup Workers
    /\ nextReq \in 1..(MaxSubmits + 1)
    /\ highlightedImageIndex \in Int
    /\ highlighted \in [1..Len(thumbnailDict) -> BOOLEAN]
    /\ loggerPc \in {"running", "stopped"}
    /\ exitLogged \in BOOLEAN

\* ================================================================ claims
\* The requests for key k that have been enqueued and whose result has not
\* been read by ReceiveImages: on their way to the server, waiting in the
\* pool, held by a worker that has not sent yet, or waiting on fromTS.
Outstanding(k) ==
    {toTS[i].req : i \in {j \in 1..Len(toTS) : toTS[j].path = k}}
    \cup {poolTasks[i].req : i \in {j \in 1..Len(poolTasks) : poolTasks[j].path = k}}
    \cup {worker[w].req : w \in {v \in Workers : worker[v].path = k
                                     /\ worker[v].pc \in {"decode", "acquire", "send"}}}
    \cup {fromTS[i].req : i \in {j \in 1..Len(fromTS) : fromTS[j].path = k}}

\* A step of ScrollBrowser that moves the containers.
ScrollStep == inputPath' = inputPath /\ currentScroll' # currentScroll

\* C1 (as claimed): a position update never makes _updateSprite enqueue a
\* request for a key while an earlier request for that key is outstanding
\* (enqueued, and its result not yet read by ReceiveImages).
C1_AtMostOneInFlight ==
    [][\A k \in Files :
        (ScrollStep /\ CountKey(toTS', k) > CountKey(toTS, k)) => Outstanding(k) = {}]_vars

\* C2: every result on fromTS carries the path and serial number of a
\* request that was enqueued before, and for each key no more results have
\* been published than requests were enqueued.
C2_KeyIntegrity ==
    /\ \A i \in 1..Len(fromTS) :
        /\ fromTS[i].path \in Files
        /\ submitted[fromTS[i].path] >= 1
        /\ fromTS[i].req \in 1..(nextReq - 1)
    /\ \A k \in Files : published[k] <= submitted[k]

\* C2 witness: results for two different keys have been published, one of
\* them still on fromTS.
C2_Witness ==
    /\ fromTS # <<>>
    /\ \A k \in Files : published[k] >= 1

\* A tracked container with path k is Pending.
Pending(k) ==
    \E i \in 1..Len(thumbnailDict) : thumbnailDict[i].path = k /\ thumbnailDict[i].imageLoading

\* C3 (as claimed): every key that is submitted once, with no Stop issued,
\* has its result drained by ReceiveImages eventually, and exactly once.
C3_AllDrained ==
    /\ \A k \in Files :
        [](submitted[k] = 1 =>
            <>(drained[k] = 1 \/ submitted[k] > 1 \/ hostPc = "exited"))
    /\ [](\A k \in Files : drained[k] <= submitted[k])

\* C3 (amended): a key that is submitted once has its result drained
\* eventually if its container stays tracked and Pending until then and no
\* Stop is issued; no result is drained more often than it was published.
C3_PendingDrained ==
    /\ \A k \in Files :
        [](submitted[k] = 1 /\ drained[k] = 0 /\ Pending(k) =>
            <>(drained[k] = 1 \/ ~Pending(k) \/ submitted[k] > 1 \/ hostPc = "exited"))
    /\ [](\A k \in Files : drained[k] <= published[k] /\ published[k] <= submitted[k])

\* C3 witness: both keys were submitted once, the application is running,
\* each result has been drained once and the tracked container is Ready.
C3_Witness ==
    /\ hostPc = "running"
    /\ \A k \in Files : submitted[k] = 1 /\ drained[k] = 1
    /\ \E i \in 1..Len(thumbnailDict) :
        /\ thumbnailDict[i].path \in Files
        /\ thumbnailDict[i].imageLoaded
        /\ ~thumbnailDict[i].imageLoading

\* C4 (as claimed): once run() has received the sentinel no result is put on
\* fromTS any more, and no exception has left a worker's LoadImage.
C4_NoResultAfterSentinel ==
    /\ hist.late = 0
    /\ \A w \in Workers : ~worker[w].raised

\* C5 (as claimed): a channel end is closed only when no dispatched task is
\* waiting in the pool or running in a worker that can still publish.
C5_CloseAfterWorkers ==
    (parentConnClosed \/ childConnClosed) =>
        /\ poolTasks = <<>>
        /\ \A w \in Workers : worker[w].pc \notin {"decode", "acquire", "send"}

\* C6 (as claimed): a worker that sends after the connection has been closed
\* drops the result and ends its publish step normally: nothing is added to
\* fromTS, no exception is raised, and it goes on to release the lock.
C6_PublishAfterCloseDropped ==
    [][\A w \in Workers :
        (parentConnClosed /\ worker[w].pc = "send" /\ worker'[w].pc \notin {"send", "terminated"})
            => (fromTS' = fromTS /\ ~worker'[w].raised /\ worker'[w].pc = "release")]_vars

C8_DetrackedDropped ==
    [][drained' # drained =>
        /\ Len(thumbnailDict') = Len(thumbnailDict)
        /\ \A i \in 1..Len(thumbnailDict) :
            (\A j \in 1..Len(fromTS) : fromTS[j].path # thumbnailDict[i].path)
                => thumbnailDict'[i] = thumbnailDict[i]]_vars

\* C8 witness: ReceiveImages has read and discarded a result whose key was
\* not in thumbnailDict.
C8_Witness == hist.dropped > 0

\* C9 (as claimed): no result read by ReceiveImages has changed a container
\* that was not Pending when the result was read.
C9_OnlyPendingApplied == hist.changedNotPending = 0

\* C10 (as claimed): no container has left Pending because of the result of
\* a request other than the one it issued in its current visibility
\* lifetime.
C10_NoStaleReady == hist.staleReady = 0

\* C11: whenever the host loop is idle between callbacks and a tracked
\* container has imageLoading set, a ReceiveImages pass is scheduled.
C11_PollingArmed ==
    (hostPc = "running" /\ AnyLoading(thumbnailDict)) => scheduled > 0

\* C11 witness: a container is still loading after the passes armed by the
\* folder load have run; the one pass that is scheduled was armed by a scroll
\* or by the previous pass.
C11_Witness ==
    /\ hostPc = "running"
    /\ inputPath = FolderA
    /\ AnyLoading(thumbnailDict)
    /\ scheduled = 1

\* C12 (as claimed): after a pass of ReceiveImages that leaves no container
\* Pending, no pass runs until a folder load or a scroll has set a container
\* Pending again.
C12_NoPassWhileIdle == [][ReceiveImages => ~hist.idle]_vars

\* C13: a scheduled pass of ReceiveImages can always run to its end, whatever
\* the workers are doing; it reads exactly the results that were available
\* when it ran, and over an empty fromTS it reads nothing and changes no
\* container.
C13_NonBlockingDrain ==
    /\ []((hostPc = "running" /\ scheduled > 0) => ENABLED ReceiveImages)
    /\ [][ReceiveImages =>
            /\ fromTS' = <<>>
            /\ \A k \in Files : drained'[k] = drained[k] + CountKey(fromTS, k)
            /\ fromTS = <<>> => (drained' = drained /\ thumbnailDict' = thumbnailDict)]_vars

\* C13 witness: a pass is due while fromTS is empty, a container is loading
\* and a worker is in the middle of decoding (the pass over the empty channel
\* leaves this state as it is).
C13_Witness ==
    /\ hostPc = "running"
    /\ scheduled > 0
    /\ fromTS = <<>>
    /\ AnyLoading(thumbnailDict)
    /\ \E w \in Workers : worker[w].pc = "decode"

\* C14: the host never waits for queueLock: no handler has met an acquire
\* that found the lock held, and between handlers the lock is free.
C14_HostNeverBlocks == hostPc # "blocked" /\ ~queueLock

\* C14 witness: the host has taken the lock both to enqueue a request and to
\* read a result, and is running with the lock free.
C14_Witness ==
    /\ hostPc = "running"
    /\ ~queueLock
    /\ TotalSubmitted >= 1
    /\ \E k \in Files : drained[k] >= 1

\* C15: at most one worker at a time is inside parentConn.send, and it holds
\* the shared lock; a step that adds to fromTS is the send of exactly one
\* worker, the lock holder; a step that changes toTS is either the host
\* appending to it or the server taking its head.
C15_HandOffDiscipline ==
    /\ [](/\ Cardinality({w \in Workers : worker[w].pc = "send"}) <= 1
          /\ \A w \in Workers : worker[w].pc \in {"send", "release"} => lock = w)
    /\ [][(Len(fromTS') > Len(fromTS) =>
              (/\ Len(fromTS') = Len(fromTS) + 1
               /\ Cardinality({w \in Workers :
                        worker[w].pc = "send" /\ worker'[w].pc # "send"}) = 1
               /\ \A w \in Workers :
                        (worker[w].pc = "send" /\ worker'[w].pc # "send") => lock = w))
           /\ (toTS' # toTS =>
                 (\/ (serverPc = "running" /\ toTS # <<>> /\ toTS' = Tail(toTS)
                        /\ hostVars' = hostVars)
                  \/ (hostPc = "running" /\ Len(toTS') > Len(toTS)
                        /\ SubSeq(toTS', 1, Len(toTS)) = toTS
                        /\ engineVars' = engineVars)))]_vars

\* C15 witness: one worker is inside send holding the lock while the other
\* has a result ready and waits for the lock.
C15_Witness ==
    \E w, v \in Workers :
        worker[w].pc = "send" /\ lock = w /\ worker[v].pc = "acquire"

\* The results of q that carry path p, in order, and a container after it
\* has received the results of q one after the other.
OwnResults(q, p) == SelectSeq(q, LAMBDA r : r.path = p)

RECURSIVE ReceiveAll(_, _)
ReceiveAll(c, q) ==
    IF q = <<>> THEN c ELSE ReceiveAll(ReceiveImage(c, Head(q).image), Tail(q))

\* C16: whatever the order of the results on fromTS, a pass of ReceiveImages
\* leaves every container as it is after receiving exactly the results that
\* carry its own path, and no other result.
C16_MatchByKey ==
    [][ReceiveImages =>
        /\ Len(thumbnailDict') = Len(thumbnailDict)
        /\ \A i \in 1..Len(thumbnailDict) :
            thumbnailDict'[i] =
                ReceiveAll(thumbnailDict[i], OwnResults(fromTS, thumbnailDict[i].path))]_vars

\* C16 witness: a pass has read results that were not in the order of their
\* requests, and a tracked image container shows its thumbnail.
C16_Witness ==
    /\ hist.reordered
    /\ \E i \in 1..Len(thumbnailDict) :
        thumbnailDict[i].path \in Files /\ thumbnailDict[i].sprite = "thumb"

\* C17: when ScrollBrowser moves a container out of the viewport the
\* container ends with imageLoaded and imageLoading reset and without
\* sprite, label and gridlines, while every request already enqueued,
\* dispatched or answered stays where it is; when it moves an image container
\* back into the viewport a new request for its path is enqueued.
C17_InvisibleResets ==
    [][(\E scroll \in ScrollAmounts : ScrollBrowser(scroll)) =>
        /\ SubSeq(toTS', 1, Len(toTS)) = toTS
        /\ <<poolTasks', worker', fromTS'>> = <<poolTasks, worker, fromTS>>
        /\ \A i \in 1..Len(thumbnailDict) :
            /\ (visible(thumbnailDict[i]) /\ ~visible(thumbnailDict'[i])) =>
                    /\ ~thumbnailDict'[i].imageLoaded
                    /\ ~thumbnailDict'[i].imageLoading
                    /\ thumbnailDict'[i].sprite = "none"
                    /\ ~thumbnailDict'[i].label
                    /\ ~thumbnailDict'[i].gridLines
            /\ (~visible(thumbnailDict[i]) /\ visible(thumbnailDict'[i])
                    /\ thumbnailDict[i].path \in Files) =>
                    /\ thumbnailDict'[i].imageLoading
                    /\ \E j \in (Len(toTS) + 1)..Len(toTS') :
                            toTS'[j].path = thumbnailDict[i].path]_vars

\* C17 witness: the image of /A was requested, scrolled out of the viewport
\* and back in: its container is Pending on its second request while the
\* first request is still outstanding.
C17_Witness ==
    \E i \in 1..Len(thumbnailDict) :
        /\ thumbnailDict[i].path = "/A/f1.png"
        /\ visible(thumbnailDict[i])
        /\ thumbnailDict[i].imageLoading
        /\ thumbnailDict[i].req = 2
        /\ 1 \in Outstanding("/A/f1.png")

\* C18: a position update by ScrollBrowser that finds an image container
\* visible and leaves it visible enqueues no request for it: the container
\* keeps the one request of its visibility lifetime.
C18_OncePerLifetime ==
    [][(\E scroll \in ScrollAmounts : ScrollBrowser(scroll)) =>
        \A i \in 1..Len(thumbnailDict) :
            (thumbnailDict[i].path \in Files
                /\ visible(thumbnailDict[i]) /\ visible(thumbnailDict'[i])) =>
                /\ CountKey(toTS', thumbnailDict[i].path) = CountKey(toTS, thumbnailDict[i].path)
                /\ submitted'[thumbnailDict[i].path] = submitted[thumbnailDict[i].path]
                /\ thumbnailDict'[i].req = thumbnailDict[i].req
                /\ thumbnailDict'[i].req # 0]_vars

\* C18 witness: the image of /A has been moved while it stayed visible (the
\* view is scrolled as far as it goes, which takes two scrolls, and the image
\* is visible after the first), and one request was enqueued for it.
C18_Witness ==
    /\ inputPath = FolderA
    /\ currentScroll = scrollableAmount
    /\ submitted["/A/f1.png"] = 1
    /\ \E i \in 1..Len(thumbnailDict) :
        thumbnailDict[i].path = "/A/f1.png" /\ visible(thumbnailDict[i])

\* C19: a container whose path is a directory is never Pending and has
\* issued no request, it shows the folder icon whenever it is visible, and
\* no request or result anywhere in the pipeline carries a directory path.
C19_DirectoriesNeverRequested ==
    /\ \A i \in 1..Len(thumbnailDict) :
        thumbnailDict[i].path \in Directories =>
            /\ ~thumbnailDict[i].imageLoading
            /\ thumbnailDict[i].req = 0
            /\ visible(thumbnailDict[i]) => thumbnailDict[i].sprite = "folder"
    /\ \A j \in 1..Len(toTS) : toTS[j].path \notin Directories
    /\ \A j \in 1..Len(poolTasks) : poolTasks[j].path \notin Directories
    /\ \A w \in Workers : worker[w].path \notin Directories
    /\ \A j \in 1..Len(fromTS) : fromTS[j].path \notin Directories

\* C19 witness: /A was opened and never left, its view was scrolled (its
\* image was requested) and scrolled back to the top, so the folders of the
\* first row have left the viewport and come back; they show the folder icon.
C19_Witness ==
    /\ inputPath = FolderA
    /\ submitted["/g1.png"] = 0
    /\ submitted["/A/f1.png"] >= 1
    /\ currentScroll = 0
    /\ visible(thumbnailDict[1])
    /\ thumbnailDict[1].path \in Directories
    /\ thumbnailDict[1].sprite = "folder"

\* C20: a container that is Pending, is marked as requested or has a current
\* request is in the viewport; a key with a request was in the viewport at
\* some time; and every request a step enqueues belongs to a container that
\* is in the viewport at the end of that step.
C20_VisibilityGated ==
    /\ [](/\ \A i \in 1..Len(thumbnailDict) :
                (thumbnailDict[i].imageLoading \/ thumbnailDict[i].imageLoaded
                    \/ thumbnailDict[i].req # 0) => visible(thumbnailDict[i])
          /\ \A k \in Files : submitted[k] > 0 => k \in hist.seen)
    /\ [][\A j \in (Len(toTS) + 1)..Len(toTS') :
            \/ toTS'[j] = Sentinel
            \/ \E i \in 1..Len(thumbnailDict') :
                /\ thumbnailDict'[i].path = toTS'[j].path
                /\ thumbnailDict'[i].req = toTS'[j].req
                /\ visible(thumbnailDict'[i])]_vars

\* C20 witness: /A was opened from the root folder, whose image was requested
\* and its result read; the image of /A, which starts below the viewport, has
\* never been in it and no request was enqueued for it.
C20_Witness ==
    /\ inputPath = FolderA
    /\ submitted["/A/f1.png"] = 0
    /\ "/A/f1.png" \notin hist.seen
    /\ submitted["/g1.png"] = 1
    /\ drained["/g1.png"] = 1
    /\ \E i \in 1..Len(thumbnailDict) :
        thumbnailDict[i].path = "/A/f1.png" /\ ~visible(thumbnailDict[i])

\* C21: everything on toTS except the value put there at application exit
\* is a request the dispatch loop takes for a request (path and size both
\* not None), and the loop of run() is left only in a step that receives that
\* value, after the application has exited.
C21_SentinelDistinct ==
    /\ [](\A j \in 1..Len(toTS) :
            toTS[j] # Sentinel =>
                (IsRequest(toTS[j]) /\ toTS[j].path \in Files /\ toTS[j].req >= 1))
    /\ [][(serverPc = "running" /\ serverPc' # "running") =>
            (/\ toTS # <<>>
             /\ Head(toTS) = Sentinel
             /\ hostPc = "exited"
             /\ poolTasks' = poolTasks)]_vars

\* C21 witness: run() has left its loop after it had dispatched a request
\* whose result was published.
C21_Witness ==
    /\ serverPc # "running"
    /\ \E k \in Files : published[k] >= 1

C23_Lifecycle ==
    /\ [][serverPc' # serverPc =>
            <<serverPc, serverPc'>> \in {<<"running", "closeParent">>,
                                         <<"closeParent", "closeChild">>,
                                         <<"closeChild", "poolExit">>,
                                         <<"poolExit", "stopped">>}]_vars
    /\ [](serverPc = "stopped" => (parentConnClosed /\ childConnClosed))
    /\ (hostPc = "exited" ~> serverPc = "stopped")

\* C23 witness: run() has ended although a request that was enqueued has
\* had no result published.
C23_Witness ==
    /\ serverPc = "stopped"
    /\ \E k \in Files : submitted[k] > published[k]

\* A visible container that has received a failed result (None): it is no
\* longer loading and still shows the placeholder.
FailedDelivered(c) ==
    /\ c.path \in Files
    /\ visible(c)
    /\ ~c.imageLoading
    /\ c.sprite = "loading"

\* C24: a request run() receives adds exactly one task to the pool, and a
\* scroll or a pass of ReceiveImages that leaves a container with a failed
\* result visible enqueues no request for its key.
C24_NoRetry ==
    [][/\ (ServerRecv /\ IsRequest(Head(toTS))) => poolTasks' = Append(poolTasks, Head(toTS))
       /\ ((\E scroll \in ScrollAmounts : ScrollBrowser(scroll)) \/ ReceiveImages) =>
            \A i \in 1..Len(thumbnailDict) :
                (FailedDelivered(thumbnailDict[i]) /\ visible(thumbnailDict'[i])) =>
                    /\ submitted'[thumbnailDict[i].path] = submitted[thumbnailDict[i].path]
                    /\ CountKey(toTS', thumbnailDict[i].path)
                            = CountKey(toTS, thumbnailDict[i].path)
                    /\ ~thumbnailDict'[i].imageLoading]_vars

\* C24 witness: the image of /A was requested once, its decode failed with a
\* warning, the failed result was delivered, and the view has been scrolled
\* to its end with the container still visible and no second request.
C24_Witness ==
    /\ inputPath = FolderA
    /\ currentScroll = scrollableAmount
    /\ submitted["/A/f1.png"] = 1
    /\ warnings["/A/f1.png"] = 1
    /\ drained["/A/f1.png"] = 1
    /\ \E i \in 1..Len(thumbnailDict) :
        thumbnailDict[i].path = "/A/f1.png" /\ FailedDelivered(thumbnailDict[i])

\* The results of q that are not failures, and the keys of its failures.
WithoutFailed(q) == SelectSeq(q, LAMBDA r : r.image # None)
FailedKeys(q) == {q[j].path : j \in {n \in 1..Len(q) : q[n].image = None}}

\* C25: a pass of ReceiveImages that reads failed results leaves every
\* container registered under another key exactly as the pass would leave it
\* without the failed results; and a decode that fails changes nothing but
\* the failing worker itself and the warnings: the other workers, the lock,
\* the pool and both channels are as before.
C25_FailureIsolation ==
    [][/\ ReceiveImages =>
            \A i \in 1..Len(thumbnailDict) :
                thumbnailDict[i].path \notin FailedKeys(fromTS) =>
                    thumbnailDict'[i] = DrainAll(thumbnailDict, WithoutFailed(fromTS))[i]
       /\ \A w \in Workers :
            (worker[w].pc = "decode" /\ worker'[w].pc = "acquire" /\ worker'[w].image = None) =>
                /\ \A v \in Workers \ {w} : worker'[v] = worker[v]
                /\ <<lock', poolTasks', toTS', fromTS', hostVars'>>
                        = <<lock, poolTasks, toTS, fromTS, hostVars>>]_vars

\* C25 witness: the decode of the root folder's image failed and the failed
\* result was delivered to its container; afterwards the image of /A was
\* decoded, published and applied, and the folders around it are shown.
C25_Witness ==
    /\ warnings["/g1.png"] = 1
    /\ drained["/g1.png"] = 1
    /\ hist.dropped = 0
    /\ warnings["/A/f1.png"] = 0
    /\ inputPath = FolderA
    /\ \E i \in 1..Len(thumbnailDict) :
        thumbnailDict[i].path = "/A/f1.png" /\ thumbnailDict[i].sprite = "thumb"
    /\ \E i \in 1..Len(thumbnailDict) :
        thumbnailDict[i].path \in Directories /\ thumbnailDict[i].sprite = "folder"

C27_OneEngine == engines = 1

\* C27 witness: since the browser was opened on the root folder, /A has been
\* opened and scrolled and a result has been read, with one engine.
C27_Witness ==
    /\ engines = 1
    /\ inputPath = FolderA
    /\ submitted["/g1.png"] >= 1
    /\ currentScroll > 0
    /\ \E k \in Files : drained[k] >= 1

\* C28: the raster of a successful decode is no wider and no higher than
\* the original image and than the bounding size, and has at least one pixel
\* each way; an image of 1000 by 500 with bounding size 200 gives 200 by 100.
C28_DownscaleOnly ==
    sample.raster # <<>> =>
        /\ sample.raster[1] \in 1..sample.width
        /\ sample.raster[2] \in 1..sample.height
        /\ sample.raster[1] <= sample.size
        /\ sample.raster[2] <= sample.size
        /\ (sample.width = 1000 /\ sample.height = 500 /\ sample.size = 200) =>
                sample.raster = <<200, 100>>

\* C28 witness: the image of 1000 by 500 has been decoded with bounding size
\* 200.
C28_Witness ==
    /\ sample.width = 1000
    /\ sample.height = 500
    /\ sample.size = 200
    /\ sample.raster = <<200, 100>>

\* A container outside the viewport for which nothing is requested or shown.
NotRequestedInvisible(c) ==
    /\ ~visible(c)
    /\ ~c.imageLoaded
    /\ ~c.imageLoading
    /\ c.sprite = "none"
    /\ ~c.label
    /\ ~c.gridLines

\* C29: a position update by ScrollBrowser that leaves a NotRequested
\* container outside the viewport changes nothing of it but its position, and
\* enqueues no request for its path; nothing of the engine changes.
C29_InvisibleNoAction ==
    [][(\E scroll \in ScrollAmounts : ScrollBrowser(scroll)) =>
        /\ engineVars' = engineVars
        /\ \A i \in 1..Len(thumbnailDict) :
            (NotRequestedInvisible(thumbnailDict[i]) /\ ~visible(thumbnailDict'[i])) =>
                /\ thumbnailDict'[i] = [thumbnailDict[i] EXCEPT !.y = thumbnailDict'[i].y]
                /\ NotRequestedInvisible(thumbnailDict'[i])
                /\ \A j \in (Len(toTS) + 1)..Len(toTS') :
                        toTS'[j].path # thumbnailDict[i].path]_vars

\* C29 witness: the view of /A is scrolled to its end, which takes two
\* scrolls: the first row left the viewport with the first and was moved
\* again, outside the viewport, with the second.
C29_Witness ==
    /\ inputPath = FolderA
    /\ currentScroll = scrollableAmount
    /\ currentScroll > 0
    /\ NotRequestedInvisible(thumbnailDict[1])

\* C30 (as claimed): before the server has stopped, the lock is held only by
\* a process that is between its acquire and its release in LoadImage: once
\* a LoadImage execution has ended, by its return or by an exception of its
\* send, the process does not hold the lock.
C30_LockFreeAfterLoadImage ==
    \A w \in Workers :
        (serverPc # "stopped" /\ worker[w].pc \notin {"send", "release"}) => lock # w

\* The requests waiting on toTS, in order.
WaitingRequests == SelectSeq(toTS, IsRequest)

\* C31: the loop of run() takes one item of toTS per turn, and hands the
\* requests to the pool in the order they were enqueued, each once and none
\* left out: the serial numbers handed over so far are 1, 2, ... in order,
\* the requests still waiting are the ones that follow, and once the loop
\* has ended every request ever enqueued has been handed over.
C31_DispatchInOrder ==
    /\ [](/\ hist.dispatched = [i \in 1..Len(hist.dispatched) |-> i]
          /\ Serials(WaitingRequests) =
                [i \in 1..Len(WaitingRequests) |-> Len(hist.dispatched) + i]
          /\ serverPc # "running" => Len(hist.dispatched) = TotalSubmitted)
    /\ [][ServerRecv => /\ toTS' = Tail(toTS)
                        /\ Len(hist'.dispatched) <= Len(hist.dispatched) + 1]_vars

\* C31 witness: the loop has ended after handing two requests to the pool.
C31_Witness ==
    /\ serverPc # "running"
    /\ hist.dispatched = <<1, 2>>

\* C32 (as claimed): under fair scheduling every request that has been
\* enqueued is eventually answered by a result placed on fromTS: for every
\* key, once n requests have been enqueued, n results are eventually
\* published.
C32_EveryRequestPublished ==
    \A k \in Files : \A n \in 1..MaxSubmits :
        (submitted[k] >= n) ~> (published[k] >= n)

\* C33: in every state every container has imageLoading only together with
\* imageLoaded, and only while it is in the viewport, where its last
\* position update left it, with a sprite: (imageLoaded, imageLoading) is
\* one of (FALSE, FALSE), (TRUE, TRUE), (TRUE, FALSE), never (FALSE, TRUE).
C33_TrackerStates ==
    \A i \in 1..Len(thumbnailDict) :
        /\ <<thumbnailDict[i].imageLoaded, thumbnailDict[i].imageLoading>> \in
               {<<FALSE, FALSE>>, <<TRUE, TRUE>>, <<TRUE, FALSE>>}
        /\ thumbnailDict[i].imageLoading =>
               visible(thumbnailDict[i]) /\ thumbnailDict[i].sprite # "none"

\* C33 witness: the image of /A, outside the viewport when the folder was
\* opened, has been scrolled into it and is being loaded, after an earlier
\* request for it was abandoned when it was scrolled out.
C33_Witness ==
    /\ inputPath = FolderA
    /\ \E i \in 1..Len(thumbnailDict) :
        /\ thumbnailDict[i].path \in Files
        /\ thumbnailDict[i].imageLoading
        /\ thumbnailDict[i].imageLoaded
        /\ submitted[thumbnailDict[i].path] = 2

\* A tracked container with path k is Ready: in the viewport, requested, no
\* longer loading, showing the thumbnail or (after a failure) the placeholder.
Ready(k) ==
    \E i \in 1..Len(thumbnailDict) :
        /\ thumbnailDict[i].path = k
        /\ visible(thumbnailDict[i])
        /\ thumbnailDict[i].imageLoaded
        /\ ~thumbnailDict[i].imageLoading
        /\ thumbnailDict[i].sprite \in {"thumb", "loading"}

\* No tracked container with path k is in the viewport.
OutOfView(k) ==
    \A i \in 1..Len(thumbnailDict) : thumbnailDict[i].path = k => ~visible(thumbnailDict[i])

C35_ScrollConsistent ==
    /\ 0 <= currentScroll
    /\ currentScroll <= scrollableAmount
    /\ Len(thumbnailDict) = Len(Placed(inputPath))
    /\ \A i \in 1..Len(thumbnailDict) :
        thumbnailDict[i].y = Placed(inputPath)[i].y + currentScroll

\* C35 witness: a scroll that asked for more than was left has been cut to
\* the end of the view, and the containers have moved by the part applied.
C35_Witness ==
    /\ scrollableAmount > 0
    /\ currentScroll = scrollableAmount
    /\ \A scroll \in ScrollAmounts : scrollableAmount % Abs(scroll) # 0
    /\ thumbnailDict[Len(thumbnailDict)].y = LastY(inputPath) + scrollableAmount

\* C36: highlightedImageIndex is an index of a tracked container and that
\* container, and no other, is highlighted; UP at the first row ends at
\* index 0 and DOWN past the last container at the last index, RIGHT at the
\* last index wraps to 0 and LEFT at index 0 to the last index.
C36_Highlight ==
    /\ [](/\ highlightedImageIndex \in 0..(Len(thumbnailDict) - 1)
          /\ highlighted = [i \in 1..Len(thumbnailDict) |-> i = highlightedImageIndex + 1])
    /\ [][/\ (KeyUp /\ highlightedImageIndex < thumbnailsPerRow) =>
                highlightedImageIndex' = 0
          /\ (KeyDown /\ highlightedImageIndex + thumbnailsPerRow >= Len(thumbnailDict)) =>
                highlightedImageIndex' = Len(thumbnailDict) - 1
          /\ (KeyRight /\ highlightedImageIndex = Len(thumbnailDict) - 1) =>
                highlightedImageIndex' = 0
          /\ (KeyLeft /\ highlightedImageIndex = 0) =>
                highlightedImageIndex' = Len(thumbnailDict) - 1]_vars

\* C36 witness: in a folder of more than one row the highlight is on the
\* last container, which the keys have scrolled into the window.
C36_Witness ==
    /\ Len(thumbnailDict) > thumbnailsPerRow
    /\ highlightedImageIndex = Len(thumbnailDict) - 1
    /\ highlighted[Len(thumbnailDict)]
    /\ currentScroll > 0

\* C37: the logging process handles the messages in the order they were
\* put on the queue and stops with the first 'Exiting' message; 'Exiting' is
\* put only after the sentinel has been put on toTS; and once the logging
\* process has stopped, nothing more is written, whatever is logged later.
C37_LoggingShutdown ==
    /\ [](/\ written \o logQueue = hist.logged
          /\ \A i \in 1..(Len(written) - 1) : written[i].text # "Exiting"
          /\ loggerPc = "stopped" <=>
                (written # <<>> /\ written[Len(written)].text = "Exiting")
          /\ exitLogged =>
                /\ hostPc = "exited"
                /\ serverPc # "running" \/ (\E i \in 1..Len(toTS) : toTS[i] = Sentinel))
    /\ [][loggerPc = "stopped" => written' = written]_vars

\* C37 witness: the logging process has stopped at 'Exiting', and a message
\* a pool process logged after that waits on the queue unwritten.
C37_Witness ==
    /\ loggerPc = "stopped"
    /\ written # <<>>
    /\ written[Len(written)].text = "Exiting"
    /\ logQueue # <<>>
    /\ \A i \in 1..Len(logQueue) : logQueue[i].name \in Files
====
